---- MODULE Spec2Model ----
(***************************************************************************)
(* Topological sorting over an adjacency matrix: Kahn's algorithm (khan),  *)
(* the DFS exit-time sorter of Kahn.py (topo_stack_duration), the DFS      *)
(* stack-duration sorter of Gbt_Kahn.py (topo_stack_duration_with_details) *)
(* and the order validator (is_valid_topo).                                *)
(*                                                                         *)
(* One behaviour takes one input value and calls the public functions on   *)
(* it one after the other.  khan advances one iteration of its while loop  *)
(* per step; the nested recursive dfs is an explicit stack of frames and   *)
(* advances one call or one return per step.                               *)
(***************************************************************************)
EXTENDS Integers, Sequences, FiniteSets

\* Largest number of vertices (rows) of an input.
MaxN == 3
\* Largest number of edges of a well-formed input.
MaxEdges == 4

\* Cell values of the matrices: one of them is the sentinel graph[0][0].
Values == {0, 1}

VARIABLES
    graph,              \* the argument: [kind, rows], rows of [kind, cells]
    fn,                 \* the function being executed
    pc,                 \* position inside it: "call", "loop", "return"
    in_degrees,         \* khan: vertex -> remaining in-degree
    sources,            \* khan: FIFO list of vertices of in-degree 0
    topological_order,  \* khan: output list
    visited,            \* dfs sorters: vertex -> BOOLEAN
    enter_time,         \* topo_stack_duration_with_details only
    exit_time,          \* dfs sorters
    time,               \* dfs sorters: the shared clock
    stack,              \* recursion stack of dfs: frames [v, u], u = loop index
    root,               \* index of the outer "for v in range(N)" loop
    durations,          \* topo_stack_duration_with_details only
    order,              \* sorters: result of sorted(); is_valid_topo: argument
    ret                 \* function name -> outcome of its call

vars == <<graph, fn, pc, in_degrees, sources, topological_order, visited,
          enter_time, exit_time, time, stack, root, durations, order, ret>>

----------------------------------------------------------------------------
(* Input values *)

NoneValue == [kind |-> "None", rows |-> <<>>]
\* A value that is not a list (an int, a tuple, a string ...).
NotAList  == [kind |-> "other", rows |-> <<>>]

ListRow(cells) == [kind |-> "list", cells |-> cells]
OtherRow       == [kind |-> "other", cells |-> <<>>]

\* len(graph)
N(g) == Len(g.rows)
Vertices(g) == 0 .. (N(g) - 1)

\* graph[u][v], 0-based
Cell(g, u, v) == g.rows[u + 1].cells[v + 1]

\* NO_EDGE = graph[0][0]
NO_EDGE(g) == Cell(g, 0, 0)

\* graph[u][v] != NO_EDGE
HasEdge(g, u, v) == Cell(g, u, v) /= NO_EDGE(g)

Slots(n) == ((0 .. (n - 1)) \X (0 .. (n - 1))) \ {<<0, 0>>}

\* The n x n matrix with sentinel s whose cells in E hold the other value.
MkGraph(n, s, E) ==
    [kind |-> "list",
     rows |-> [u \in 1 .. n |->
                 ListRow([v \in 1 .. n |->
                            IF <<u - 1, v - 1>> \in E THEN 1 - s ELSE s])]]

WellFormedGraphs ==
    UNION { UNION { { MkGraph(n, s, E) :
                        E \in {F \in SUBSET Slots(n) : Cardinality(F) <= MaxEdges} }
                    : s \in Values }
            : n \in 1 .. MaxN }

\* Lists of rows of every shape: a row is a non-list or a list of 0..MaxN cells.
RowShapes == {OtherRow} \cup { ListRow([i \in 1 .. k |-> 0]) : k \in 0 .. MaxN }

ShapedLists ==
    UNION { { [kind |-> "list", rows |-> r] : r \in [1 .. n -> RowShapes] }
            : n \in 0 .. MaxN }

Inputs == {NoneValue, NotAList} \cup ShapedLists \cup WellFormedGraphs

----------------------------------------------------------------------------
(* Data integrity check: TRUE when the function raises ValueError *)

CheckAcceptsLongRows(g) ==
    \/ g.kind = "None"
    \/ g.kind /= "list"
    \/ Len(g.rows) = 0
    \/ ~ (\A i \in 1 .. Len(g.rows) : g.rows[i].kind = "list")
    \/ ~ (\A i \in 1 .. Len(g.rows) : Len(g.rows[i].cells) >= Len(g.rows))

\* TRUE when the check raises ValueError.
DataIntegrityCheckFails(g) ==
    \/ g.kind = "None"
    \/ g.kind /= "list"
    \/ Len(g.rows) = 0
    \/ ~ (\A i \in 1 .. Len(g.rows) : g.rows[i].kind = "list")
    \/ ~ (\A i \in 1 .. Len(g.rows) : Len(g.rows[i].cells) = Len(g.rows))

----------------------------------------------------------------------------
(* khan *)

\* in_degrees after the two nested counting loops
RECURSIVE CountInto(_, _, _)
CountInto(g, v, u) ==
    IF u >= N(g) THEN 0
    ELSE (IF HasEdge(g, u, v) THEN 1 ELSE 0) + CountInto(g, v, u + 1)

InDegrees(g) == [v \in Vertices(g) |-> CountInto(g, v, 0)]

RECURSIVE SourcesAtMostOne(_, _, _)
SourcesAtMostOne(g, deg, i) ==
    IF i >= N(g) THEN <<>>
    ELSE (IF deg[i] <= 1 THEN <<i>> ELSE <<>>) \o SourcesAtMostOne(g, deg, i + 1)

\* for i in range(N): if in_degrees[i] == 0: sources.append(i)
RECURSIVE InitialSources(_, _, _)
InitialSources(g, deg, i) ==
    IF i >= N(g) THEN <<>>
    ELSE (IF deg[i] = 0 THEN <<i>> ELSE <<>>) \o InitialSources(g, deg, i + 1)

RECURSIVE ReduceNoEnqueue(_, _, _, _, _)
ReduceNoEnqueue(g, v, w, deg, src) ==
    IF w >= N(g) THEN [in_degrees |-> deg, sources |-> src]
    ELSE IF HasEdge(g, v, w)
         THEN ReduceNoEnqueue(g, v, w + 1, [deg EXCEPT ![w] = @ - 1], src)
         ELSE ReduceNoEnqueue(g, v, w + 1, deg, src)

RECURSIVE ReduceEveryVertex(_, _, _, _, _)
ReduceEveryVertex(g, v, w, deg, src) ==
    IF w >= N(g) THEN [in_degrees |-> deg, sources |-> src]
    ELSE LET d == [deg EXCEPT ![w] = @ - 1]
         IN  ReduceEveryVertex(g, v, w + 1, d,
                               IF d[w] = 0 THEN Append(src, w) ELSE src)

\* for w in range(N): if graph[v][w] != NO_EDGE: in_degrees[w] -= 1; ...
RECURSIVE ReduceNeighbors(_, _, _, _, _)
ReduceNeighbors(g, v, w, deg, src) ==
    IF w >= N(g) THEN [in_degrees |-> deg, sources |-> src]
    ELSE IF HasEdge(g, v, w)
         THEN LET d == [deg EXCEPT ![w] = @ - 1]
              IN  ReduceNeighbors(g, v, w + 1, d,
                                  IF d[w] = 0 THEN Append(src, w) ELSE src)
         ELSE ReduceNeighbors(g, v, w + 1, deg, src)

----------------------------------------------------------------------------
(* dfs sorters *)

Min(S) == CHOOSE x \in S : \A y \in S : x <= y

NeighborsIgnoringVisited(g, v, u0, vis) ==
    { u \in u0 .. (N(g) - 1) : HasEdge(g, v, u) }

\* The iterations u >= u0 of "for u in range(N)" in dfs(v) that recurse.
UnvisitedNeighbors(g, v, u0, vis) ==
    { u \in u0 .. (N(g) - 1) : HasEdge(g, v, u) /\ ~ vis[u] }

RootsIgnoringVisited(g, r, vis) == { v \in r .. (N(g) - 1) : TRUE }

\* The iterations v >= r of the outer loop that call dfs.
UnvisitedRoots(g, r, vis) == { v \in r .. (N(g) - 1) : ~ vis[v] }

ClockStaysOnPush(t, details) == t

\* "time += 1" on entering dfs: only in topo_stack_duration_with_details
ClockOnPush(t, details) == IF details THEN t + 1 ELSE t

\* Insert v behind every element whose key is >= key[v] (stable, descending).
RECURSIVE InsertDesc(_, _, _)
InsertDesc(s, v, key) ==
    IF s = <<>> THEN <<v>>
    ELSE IF key[Head(s)] >= key[v]
         THEN <<Head(s)>> \o InsertDesc(Tail(s), v, key)
         ELSE <<v>> \o s

RECURSIVE SortFrom(_, _, _, _)
SortFrom(n, i, key, acc) ==
    IF i >= n THEN acc ELSE SortFrom(n, i + 1, key, InsertDesc(acc, i, key))

\* sorted(range(N), key=lambda v: key[v], reverse=True): stable, so equal keys
\* keep ascending index order.
SortedDescending(n, key) == SortFrom(n, 0, key, <<>>)

----------------------------------------------------------------------------
(* is_valid_topo *)

\* pos = {}; for i in range(len(order)): pos[order[i]] = i
RECURSIVE BuildPos(_, _, _)
BuildPos(ord, i, pos) ==
    IF i >= Len(ord) THEN pos
    ELSE BuildPos(ord, i + 1,
                  [x \in (DOMAIN pos) \cup {ord[i + 1]} |->
                     IF x = ord[i + 1] THEN i ELSE pos[x]])

EmptyMap == [x \in {} |-> 0]

RECURSIVE ScanEdgesStrict(_, _, _, _)
ScanEdgesStrict(g, pos, u, v) ==
    IF u >= N(g) THEN "True"
    ELSE IF v >= N(g) THEN ScanEdgesStrict(g, pos, u + 1, 0)
    ELSE IF HasEdge(g, u, v)
         THEN IF u \notin DOMAIN pos \/ v \notin DOMAIN pos THEN "KeyError"
              ELSE IF pos[u] > pos[v] THEN "False"
              ELSE ScanEdgesStrict(g, pos, u, v + 1)
         ELSE ScanEdgesStrict(g, pos, u, v + 1)

\* The two nested loops with the early "return False"; a lookup of a vertex
\* missing from pos raises KeyError.
RECURSIVE ScanEdges(_, _, _, _)
ScanEdges(g, pos, u, v) ==
    IF u >= N(g) THEN "True"
    ELSE IF v >= N(g) THEN ScanEdges(g, pos, u + 1, 0)
    ELSE IF HasEdge(g, u, v)
         THEN IF u \notin DOMAIN pos \/ v \notin DOMAIN pos THEN "KeyError"
              ELSE IF pos[u] >= pos[v] THEN "False"
              ELSE ScanEdges(g, pos, u, v + 1)
         ELSE ScanEdges(g, pos, u, v + 1)

is_valid_topo(g, ord) == ScanEdges(g, BuildPos(ord, 0, EmptyMap), 0, 0)

\* The permutations of 0..n-1 as sequences.
Permutations(n) ==
    { p \in [1 .. n -> 0 .. (n - 1)] :
        \A i, j \in 1 .. n : p[i] = p[j] => i = j }

----------------------------------------------------------------------------
(* State machine *)

Functions == {"khan", "topo_stack_duration", "topo_stack_duration_with_details",
              "is_valid_topo"}

Pending == [status |-> "pending", value |-> <<>>]
Raised(e) == [status |-> "raised", value |-> e]
Returned(x) == [status |-> "returned", value |-> x]

\* The function called after f.
NextFn(f) ==
    CASE f = "khan" -> "topo_stack_duration"
      [] f = "topo_stack_duration" -> "topo_stack_duration_with_details"
      [] f = "topo_stack_duration_with_details" -> "is_valid_topo"
      [] OTHER -> "done"

NoLocals ==
    /\ in_degrees' = EmptyMap
    /\ sources' = <<>>
    /\ topological_order' = <<>>
    /\ visited' = EmptyMap
    /\ enter_time' = EmptyMap
    /\ exit_time' = EmptyMap
    /\ time' = 0
    /\ stack' = <<>>
    /\ root' = 0
    /\ durations' = EmptyMap
    /\ order' = <<>>

Init ==
    /\ graph \in Inputs
    /\ fn = "khan"
    /\ pc = "call"
    /\ in_degrees = EmptyMap
    /\ sources = <<>>
    /\ topological_order = <<>>
    /\ visited = EmptyMap
    /\ enter_time = EmptyMap
    /\ exit_time = EmptyMap
    /\ time = 0
    /\ stack = <<>>
    /\ root = 0
    /\ durations = EmptyMap
    /\ order = <<>>
    /\ ret = [f \in Functions |-> Pending]

\* khan up to the while loop: the check, the in-degrees, the initial sources.
KhanCall ==
    /\ fn = "khan" /\ pc = "call"
    /\ IF DataIntegrityCheckFails(graph)
       THEN /\ ret' = [ret EXCEPT !["khan"] = Raised("ValueError")]
            /\ fn' = NextFn(fn)
            /\ pc' = "call"
            /\ UNCHANGED <<in_degrees, sources, topological_order>>
       ELSE /\ in_degrees' = InDegrees(graph)
            /\ sources' = InitialSources(graph, InDegrees(graph), 0)
            /\ topological_order' = <<>>
            /\ pc' = "loop"
            /\ UNCHANGED <<fn, ret>>
    /\ UNCHANGED <<graph, visited, enter_time, exit_time, time, stack, root,
                   durations, order>>

\* One iteration of "while len(sources) > 0".
KhanLoop ==
    /\ fn = "khan" /\ pc = "loop"
    /\ Len(sources) > 0
    /\ LET v == Head(sources)
           r == ReduceNeighbors(graph, v, 0, in_degrees, Tail(sources))
       IN  /\ topological_order' = Append(topological_order, v)
           /\ in_degrees' = r.in_degrees
           /\ sources' = r.sources
    /\ UNCHANGED <<graph, fn, pc, visited, enter_time, exit_time, time, stack,
                   root, durations, order, ret>>

\* The loop's exit.
KhanExit ==
    /\ fn = "khan" /\ pc = "loop"
    /\ Len(sources) = 0
    /\ pc' = "return"
    /\ UNCHANGED <<graph, fn, in_degrees, sources, topological_order, visited,
                   enter_time, exit_time, time, stack, root, durations, order, ret>>

\* return topological_order
KhanReturn ==
    /\ fn = "khan" /\ pc = "return"
    /\ ret' = [ret EXCEPT !["khan"] = Returned(topological_order)]
    /\ fn' = NextFn(fn)
    /\ pc' = "call"
    /\ NoLocals
    /\ UNCHANGED graph

IsDfsSorter(f) == f \in {"topo_stack_duration", "topo_stack_duration_with_details"}
WithDetails == fn = "topo_stack_duration_with_details"

\* A dfs sorter up to its outer loop: the check and the initial locals.
TopoCall ==
    /\ IsDfsSorter(fn) /\ pc = "call"
    /\ IF DataIntegrityCheckFails(graph)
       THEN /\ ret' = [ret EXCEPT ![fn] = Raised("ValueError")]
            /\ fn' = NextFn(fn)
            /\ pc' = "call"
            /\ UNCHANGED <<visited, enter_time, exit_time, time>>
       ELSE /\ visited' = [v \in Vertices(graph) |-> FALSE]
            /\ enter_time' = IF WithDetails THEN [v \in Vertices(graph) |-> 0]
                             ELSE EmptyMap
            /\ exit_time' = [v \in Vertices(graph) |-> 0]
            /\ time' = 0
            /\ pc' = "loop"
            /\ UNCHANGED <<fn, ret>>
    /\ UNCHANGED <<graph, in_degrees, sources, topological_order, stack, root,
                   durations, order>>

\* The entry of dfs(v): visited[v] = True and, with details, the enter stamp.
Enter(v) ==
    /\ visited' = [visited EXCEPT ![v] = TRUE]
    /\ time' = ClockOnPush(time, WithDetails)
    /\ enter_time' = IF WithDetails
                     THEN [enter_time EXCEPT ![v] = ClockOnPush(time, WithDetails)]
                     ELSE enter_time

\* The outer loop reaches an unvisited v and calls dfs(v).
DfsRoot ==
    /\ IsDfsSorter(fn) /\ pc = "loop"
    /\ stack = <<>>
    /\ UnvisitedRoots(graph, root, visited) /= {}
    /\ LET v == Min(UnvisitedRoots(graph, root, visited))
       IN  /\ Enter(v)
           /\ stack' = <<[v |-> v, u |-> 0]>>
           /\ root' = v + 1
    /\ UNCHANGED <<graph, fn, pc, in_degrees, sources, topological_order,
                   exit_time, durations, order, ret>>

\* The loop of dfs(v) reaches an unvisited neighbour u and calls dfs(u).
DfsCall ==
    /\ IsDfsSorter(fn) /\ pc = "loop"
    /\ stack /= <<>>
    /\ LET top == stack[Len(stack)]
           nb  == UnvisitedNeighbors(graph, top.v, top.u, visited)
       IN  /\ nb /= {}
           /\ Enter(Min(nb))
           /\ stack' = Append([stack EXCEPT ![Len(stack)].u = Min(nb) + 1],
                              [v |-> Min(nb), u |-> 0])
    /\ UNCHANGED <<graph, fn, pc, in_degrees, sources, topological_order,
                   exit_time, root, durations, order, ret>>

\* The loop of dfs(v) ends: time += 1; exit_time[v] = time; return.
DfsReturn ==
    /\ IsDfsSorter(fn) /\ pc = "loop"
    /\ stack /= <<>>
    /\ LET top == stack[Len(stack)]
       IN  /\ UnvisitedNeighbors(graph, top.v, top.u, visited) = {}
           /\ time' = time + 1
           /\ exit_time' = [exit_time EXCEPT ![top.v] = time + 1]
           /\ stack' = SubSeq(stack, 1, Len(stack) - 1)
    /\ UNCHANGED <<graph, fn, pc, in_degrees, sources, topological_order,
                   visited, enter_time, root, durations, order, ret>>

\* The outer loop ends: the durations (with details) and the sort.
TopoSort ==
    /\ IsDfsSorter(fn) /\ pc = "loop"
    /\ stack = <<>>
    /\ UnvisitedRoots(graph, root, visited) = {}
    /\ root' = N(graph)
    /\ IF WithDetails
       THEN LET d == [v \in Vertices(graph) |-> exit_time[v] - enter_time[v]]
            IN  /\ durations' = d
                /\ order' = SortedDescending(N(graph), d)
       ELSE /\ durations' = durations
            /\ order' = SortedDescending(N(graph), exit_time)
    /\ pc' = "return"
    /\ UNCHANGED <<graph, fn, in_degrees, sources, topological_order, visited,
                   enter_time, exit_time, time, stack, ret>>

\* return order / return order, durations, enter_time, exit_time
TopoReturn ==
    /\ IsDfsSorter(fn) /\ pc = "return"
    /\ ret' = [ret EXCEPT ![fn] = Returned(order)]
    /\ fn' = NextFn(fn)
    /\ pc' = "call"
    /\ NoLocals
    /\ UNCHANGED graph

\* The orders handed to is_valid_topo: khan's result and every permutation.
Candidates ==
    Permutations(N(graph)) \cup {ret["khan"].value}

\* is_valid_topo(graph, order) on a well-formed graph.
IsValidTopoCall ==
    /\ fn = "is_valid_topo" /\ pc = "call"
    /\ ~ DataIntegrityCheckFails(graph)
    /\ \E cand \in Candidates :
         /\ order' = cand
         /\ ret' = [ret EXCEPT !["is_valid_topo"] =
                        Returned(is_valid_topo(graph, cand))]
    /\ fn' = "done"
    /\ pc' = "return"
    /\ UNCHANGED <<graph, in_degrees, sources, topological_order, visited,
                   enter_time, exit_time, time, stack, root, durations>>

Next ==
    \/ KhanCall
    \/ KhanLoop
    \/ KhanExit
    \/ KhanReturn
    \/ TopoCall
    \/ DfsRoot
    \/ DfsCall
    \/ DfsReturn
    \/ TopoSort
    \/ TopoReturn
    \/ IsValidTopoCall

Spec == Init /\ [][Next]_vars

----------------------------------------------------------------------------
(* Vocabulary of the properties *)

\* A non-empty square matrix.
IsSquareMatrix(g) ==
    /\ g.kind = "list"
    /\ Len(g.rows) >= 1
    /\ \A i \in 1 .. Len(g.rows) :
         g.rows[i].kind = "list" /\ Len(g.rows[i].cells) = Len(g.rows)

Absent(g)          == g.kind = "None"
NotSequence(g)     == g.kind = "other"
Empty(g)           == g.kind = "list" /\ Len(g.rows) = 0
RowNotSequence(g)  == g.kind = "list" /\ \E i \in 1 .. Len(g.rows) : g.rows[i].kind /= "list"
RowLengthDiffers(g) ==
    g.kind = "list" /\ \E i \in 1 .. Len(g.rows) :
        g.rows[i].kind = "list" /\ Len(g.rows[i].cells) /= Len(g.rows)

Malformed(g) ==
    Absent(g) \/ NotSequence(g) \/ Empty(g) \/ RowNotSequence(g) \/ RowLengthDiffers(g)

Edges(g) == { e \in Vertices(g) \X Vertices(g) : HasEdge(g, e[1], e[2]) }

\* Pairs joined by a path of at least one and at most k edges.
RECURSIVE PathsUpTo(_, _)
PathsUpTo(g, k) ==
    IF k <= 1 THEN Edges(g)
    ELSE LET P == PathsUpTo(g, k - 1)
         IN  P \cup { e \in Vertices(g) \X Vertices(g) :
                        \E m \in Vertices(g) : <<e[1], m>> \in P /\ <<m, e[2]>> \in Edges(g) }

Acyclic(g) == \A v \in Vertices(g) : <<v, v>> \notin PathsUpTo(g, N(g))

Range(s) == { s[i] : i \in 1 .. Len(s) }

\* Position of x in a sequence that holds it.
IndexOf(s, x) == CHOOSE i \in 1 .. Len(s) : s[i] = x

\* Every edge's source stands strictly before its target.
RespectsEdges(g, s) ==
    \A e \in Edges(g) :
        /\ e[1] \in Range(s) /\ e[2] \in Range(s)
        /\ IndexOf(s, e[1]) < IndexOf(s, e[2])

Sorters == {"khan", "topo_stack_duration", "topo_stack_duration_with_details"}

AtReturnOf(f) == fn = f /\ pc = "return"

----------------------------------------------------------------------------
(* Properties *)

\* C1: on a well-formed acyclic graph khan returns a sequence of length N in
\* which every edge's source appears strictly before its target, and
\* is_valid_topo accepts it.
C1_KhanValidOnDag ==
    /\ (AtReturnOf("khan") /\ Acyclic(graph)) =>
          /\ Len(topological_order) = N(graph)
          /\ RespectsEdges(graph, topological_order)
          /\ is_valid_topo(graph, topological_order) = "True"
    /\ (fn = "done" /\ order = ret["khan"].value /\ Acyclic(graph)) =>
          ret["is_valid_topo"].value = "True"

C1_Witness ==
    /\ AtReturnOf("khan") /\ Acyclic(graph)
    /\ N(graph) = 3 /\ Cardinality(Edges(graph)) >= 3
    /\ topological_order /= <<0, 1, 2>>

\* C2: on a well-formed acyclic graph the order returned by the
\* stack-duration sorter of Gbt_Kahn.py passes is_valid_topo.
C2_DurationOrderValidOnDag ==
    (AtReturnOf("topo_stack_duration_with_details") /\ Acyclic(graph)) =>
        is_valid_topo(graph, order) = "True"

\* C3: khan stops after at most N iterations without raising on a well-formed
\* graph, and the returned sequence has length N exactly when the graph is
\* acyclic (fewer than N otherwise).
C3_KhanLengthIffAcyclic ==
    /\ (fn = "khan" /\ pc \in {"loop", "return"}) =>
          /\ Len(topological_order) + Len(sources) <= N(graph)
          /\ (pc = "return" =>
                (Len(topological_order) = N(graph) <=> Acyclic(graph)))
    /\ (IsSquareMatrix(graph) /\ fn /= "khan") =>
          /\ ret["khan"].status = "returned"
          /\ Len(ret["khan"].value) <= N(graph)
          /\ (Len(ret["khan"].value) = N(graph) <=> Acyclic(graph))

C3_Witness ==
    /\ AtReturnOf("khan") /\ ~ Acyclic(graph)
    /\ Len(topological_order) \in 1 .. (N(graph) - 1)

\* C4: for a permutation of 0..N-1, is_valid_topo returns True exactly when
\* every edge's source is positioned strictly before its target, and False
\* otherwise.
C4_ValidatorIffEdgesForward ==
    (fn = "done" /\ order \in Permutations(N(graph))) =>
        /\ ret["is_valid_topo"].value \in {"True", "False"}
        /\ (ret["is_valid_topo"].value = "True" <=> RespectsEdges(graph, order))

C4_Witness ==
    /\ fn = "done" /\ order \in Permutations(N(graph))
    /\ ret["is_valid_topo"].value = "False"
    /\ \E e \in Edges(graph) : IndexOf(order, e[2]) < IndexOf(order, e[1])

\* C5: each public sorter raises the data-integrity error, before any sorting
\* work and without returning an order, exactly when the argument is absent,
\* not a list, empty, has a non-list row or a row whose length differs from
\* the number of rows; on a non-empty square matrix it never raises.
C5_CheckRaisesIffMalformed ==
    /\ \A f \in Sorters :
          /\ ret[f].status = "raised" =>
                (Malformed(graph) /\ ret[f].value = "ValueError")
          /\ ret[f].status = "returned" => IsSquareMatrix(graph)
          /\ (Malformed(graph) /\ fn /= f /\ fn \in Sorters \ {"khan"}
                /\ (f = "topo_stack_duration_with_details" => fn = "is_valid_topo"))
                => ret[f].status = "raised"
    /\ Malformed(graph) <=> ~ IsSquareMatrix(graph)
    /\ Malformed(graph) =>
          /\ pc = "call"
          /\ in_degrees = EmptyMap /\ sources = <<>> /\ topological_order = <<>>
          /\ visited = EmptyMap /\ exit_time = EmptyMap /\ time = 0
          /\ stack = <<>> /\ order = <<>>

C5_Witness ==
    /\ fn = "is_valid_topo"
    /\ RowLengthDiffers(graph) /\ ~ RowNotSequence(graph)
    /\ \A f \in Sorters : ret[f] = Raised("ValueError")

\* C6: in Kahn.py's topo_stack_duration on a well-formed acyclic graph, when
\* the DFS forest is complete every edge u->v has exit_time[u] > exit_time[v],
\* and the returned order is a permutation of 0..N-1, sorted by decreasing
\* exit time, that passes is_valid_topo.
C6_ExitTimeOrderValidOnDag ==
    (AtReturnOf("topo_stack_duration") /\ Acyclic(graph)) =>
        /\ \A e \in Edges(graph) : exit_time[e[1]] > exit_time[e[2]]
        /\ order \in Permutations(N(graph))
        /\ \A i, j \in 1 .. Len(order) :
              i < j => exit_time[order[i]] > exit_time[order[j]]
        /\ is_valid_topo(graph, order) = "True"

C6_Witness ==
    /\ AtReturnOf("topo_stack_duration") /\ Acyclic(graph)
    /\ N(graph) = 3 /\ Cardinality(Edges(graph)) >= 2
    /\ order /= <<0, 1, 2>>

\* C7: on a well-formed acyclic graph the duration sorter of Gbt_Kahn.py and
\* the exit-time sorter of Kahn.py return the same order.
C7_DurationOrderEqualsExitOrder ==
    (fn = "is_valid_topo" /\ pc = "call" /\ IsSquareMatrix(graph) /\ Acyclic(graph)) =>
        ret["topo_stack_duration_with_details"].value = ret["topo_stack_duration"].value

\* C8 as stated: on a well-formed graph with a cycle neither DFS sorter ever
\* reaches its return.
C8_CyclicNeverReturns ==
    (IsDfsSorter(fn) /\ pc = "return") => Acyclic(graph)

\* C8 amended: on a well-formed graph with a cycle the recursion of dfs stays
\* within depth N, the clock within 2N, and the sorter returns a permutation
\* of 0..N-1 that is_valid_topo rejects.
C8_CyclicReturnsInvalidOrder ==
    (IsDfsSorter(fn) /\ pc \in {"loop", "return"} /\ ~ Acyclic(graph)) =>
        /\ Len(stack) <= N(graph)
        /\ time <= 2 * N(graph)
        /\ pc = "return" =>
              /\ order \in Permutations(N(graph))
              /\ is_valid_topo(graph, order) = "False"

C8_Witness ==
    /\ IsDfsSorter(fn) /\ pc = "return" /\ ~ Acyclic(graph)
    /\ \E v \in Vertices(graph) : v /= 0 /\ <<0, v>> \in PathsUpTo(graph, N(graph))
                                          /\ <<v, 0>> \in PathsUpTo(graph, N(graph))

\* C9: when topo_stack_duration_with_details returns on a well-formed graph,
\* the 2N enter and exit stamps are pairwise distinct and are exactly 1..2N,
\* enter_time[v] < exit_time[v], and durations[v] = exit_time[v] - enter_time[v].
C9_SharedClockStamps ==
    AtReturnOf("topo_stack_duration_with_details") =>
        LET V == Vertices(graph)
        IN  /\ { enter_time[v] : v \in V } \cup { exit_time[v] : v \in V }
                  = 1 .. (2 * N(graph))
            /\ \A v, w \in V :
                  /\ v /= w => (enter_time[v] /= enter_time[w] /\ exit_time[v] /= exit_time[w])
                  /\ enter_time[v] /= exit_time[w]
            /\ \A v \in V : enter_time[v] < exit_time[v]
            /\ \A v \in V : durations[v] = exit_time[v] - enter_time[v]
            /\ time = 2 * N(graph)

C9_Witness ==
    /\ AtReturnOf("topo_stack_duration_with_details")
    /\ N(graph) = 3
    /\ \E v \in Vertices(graph) : durations[v] = 3
    /\ \E v \in Vertices(graph) : v /= 0 /\ enter_time[v] = 5

\* C10: at the head of every iteration of khan's while loop, in_degrees[w] is
\* the number of predecessors of w not yet in topological_order and is not
\* negative, no vertex occurs twice in sources and topological_order together,
\* and every vertex of topological_order has all its predecessors before it.
C10_KhanLoopInvariant ==
    (fn = "khan" /\ pc = "loop") =>
        /\ \A w \in Vertices(graph) :
              /\ in_degrees[w] = Cardinality({ u \in Vertices(graph) :
                                    HasEdge(graph, u, w) /\ u \notin Range(topological_order) })
              /\ in_degrees[w] >= 0
        /\ LET all == topological_order \o sources
           IN  \A i, j \in 1 .. Len(all) : all[i] = all[j] => i = j
        /\ \A i \in 1 .. Len(topological_order) :
              \A u \in Vertices(graph) :
                  HasEdge(graph, u, topological_order[i]) =>
                      \E j \in 1 .. (i - 1) : topological_order[j] = u

C10_Witness ==
    /\ fn = "khan" /\ pc = "loop"
    /\ Len(topological_order) >= 1 /\ Len(sources) >= 1
    /\ \E w \in Vertices(graph) :
          in_degrees[w] >= 1 /\ in_degrees[w] < InDegrees(graph)[w]

====
